---- MODULE Spec2Model ----
(***************************************************************************)
(* Model of src/pretraining.py: the BYOL pretraining loop main(epochs,      *)
(* num_samples) with its nested train_step_pretraining and update_f.        *)
(*                                                                         *)
(* Numbers.  Weights and the entries of F are integers.  beta = 0.99 is     *)
(* BetaNum/BetaDen and lambda_ = 0.8 is LambdaNum/LambdaDen; a blend is the *)
(* exact quotient.  The results of the external numeric kernels (the Adam   *)
(* update of a gradient, the batch correlation of the projections) are      *)
(* drawn from the values for which the following blend is an integer, so    *)
(* every division in the model is exact.                                    *)
(*                                                                         *)
(* Values the script does not compute itself (the loss of a batch, the      *)
(* eigen-decomposition of F) are terms naming the call and its arguments.   *)
(***************************************************************************)
EXTENDS Integers, Sequences, FiniteSets, TLC

VARIABLES
    epochs,             \* main's argument
    data,               \* CIFAR10(num_samples): num_train_images, shuffles
    batches_per_epoch,  \* line 115
    pc,                 \* position of main
    epoch_id, batch_id, \* loop variables
    x,                  \* (x1, x2) of line 124, None before the first fetch
    step,               \* locals of train_step_pretraining while it runs
    loss,               \* main's loss, None before the first step returns
    F,                  \* correlation matrix, None or a 2x2 matrix
    f_online, g_online, q_online, f_target, g_target,   \* get_weights() lists
    opt,                \* the Adam instance
    losses,             \* the loss log
    F_eigenval, wp_eigenval, allignment,                \* the three logs
    files,              \* checkpoint files written, in order
    losses_txt,         \* losses.txt, None until written
    stdout,             \* lines printed by the batch log
    ema_updates         \* number of completed runs of the EMA block

vars == <<epochs, data, batches_per_epoch, pc, epoch_id, batch_id, x, step,
          loss, F, f_online, g_online, q_online, f_target, g_target, opt,
          losses, F_eigenval, wp_eigenval, allignment, files, losses_txt,
          stdout, ema_updates>>

nets == <<f_online, g_online, q_online, f_target, g_target>>
logs == <<F_eigenval, wp_eigenval, allignment>>

----------------------------------------------------------------------------
(* Program constants *)

BatchSize == 512
log_every == 10
save_every == 100
track_every == 5
BetaNum == 99
BetaDen == 100
LambdaNum == 4
LambdaDen == 5

(* Bounds of the exploration *)

\* short runs take every number of epochs up to MaxEpochs
MaxEpochs == 6
\* the first MaxVaried training steps of a run draw their numeric results
\* freely; later steps take the stationary result
MaxVaried == 2

ImageChoices == {300, 512, 1100, 5120}
LongRuns == {100, 200}
Configs == ((0..MaxEpochs) \X ImageChoices) \cup (LongRuns \X {512})

----------------------------------------------------------------------------
(* Values *)

None == <<>>
Some(v) == <<v>>

\* batch correlations of the first step: symmetric, mean of outer products
CorrInit == { <<<<1, 2>>, <<2, 4>>>>, <<<<9, 3>>, <<3, 1>>>> }
\* symmetric displacements of later correlations from F, in units of LambdaDen
CorrSteps == { <<<<1, 0>>, <<0, 2>>>>, <<<<0, 1>>, <<1, 0>>>> }

\* Adam updates, per network, f and g in units of BetaDen above the target
Updates == { [f |-> <<1, -2>>, g |-> <<2>>,  q |-> <<1, -1>>],
             [f |-> <<0, 3>>,  g |-> <<-1>>, q |-> <<0, 2>>] }
Still == [f |-> <<0, 0>>, g |-> <<0>>, q |-> <<0, 0>>]

VecAdd(a, b) == [i \in 1..Len(a) |-> a[i] + b[i]]
VecSub(a, b) == [i \in 1..Len(a) |-> a[i] - b[i]]
VecScale(k, a) == [i \in 1..Len(a) |-> k * a[i]]
MatAdd(A, B) == [i \in 1..Len(A) |-> VecAdd(A[i], B[i])]
MatScale(k, A) == [i \in 1..Len(A) |-> VecScale(k, A[i])]

Symmetric(A) == \A i \in 1..Len(A) : \A j \in 1..Len(A) : A[i][j] = A[j][i]

\* the variables of a network, as the optimizer sees them
Variables(name, w) == { <<name, i>> : i \in 1..Len(w) }

----------------------------------------------------------------------------
(* Pure functions *)

update_f_swapped(Fm, corr) ==
    IF Fm = None
    THEN corr
    ELSE [i \in 1..Len(Fm) |-> [j \in 1..Len(Fm[i]) |->
             ((LambdaDen - LambdaNum) * Fm[i][j] + LambdaNum * corr[i][j])
                 \div LambdaDen]]

\* update_f, lines 16-21
update_f(Fm, corr) ==
    IF Fm = None
    THEN corr
    ELSE [i \in 1..Len(Fm) |-> [j \in 1..Len(Fm[i]) |->
             (LambdaNum * Fm[i][j] + (LambdaDen - LambdaNum) * corr[i][j])
                 \div LambdaDen]]

ema_swapped(target, online) ==
    [i \in 1..Len(target) |->
        IF i <= Len(online)
        THEN ((BetaDen - BetaNum) * target[i] + BetaNum * online[i]) \div BetaDen
        ELSE target[i]]

\* one pass of the loop of lines 133-134 / 139-140 over the online list
ema(target, online) ==
    [i \in 1..Len(target) |->
        IF i <= Len(online)
        THEN (BetaNum * target[i] + (BetaDen - BetaNum) * online[i]) \div BetaDen
        ELSE target[i]]

\* weights of a network after a forward call on it: the call returns its
\* output and leaves the weights alone (Encoder / Projector contract)
called(w) == w

\* byol_loss of the batch fetched as xs: a term naming the batch
byol_loss(xs) == [epoch |-> xs.epoch, batch |-> xs.batch]

\* float(loss): the Python float of the scalar tensor
float(l) == [value |-> l]

\* one line of np.savetxt for one entry of the log
line(v) == [text |-> v.value]

\* opt.apply_gradients(zip(grads, net.trainable_variables))
apply_gradients(o, name, w) ==
    [iterations |-> o.iterations + 1,
     slots |-> o.slots \cup Variables(name, w),
     last |-> name]

----------------------------------------------------------------------------
(* Initial state: line 119, before the epoch loop *)

Init ==
    /\ \E c \in Configs :
          /\ epochs = c[1]
          /\ data = [num_train_images |-> c[2], shuffles |-> 0]
          /\ batches_per_epoch = c[2] \div BatchSize
    /\ pc = "epoch"
    /\ epoch_id = 0
    /\ batch_id = 0
    /\ x = None
    /\ step = None
    /\ loss = None
    /\ F = None
    /\ f_target = <<3, 7>>
    /\ g_target = <<5>>
    /\ \E u \in Updates :
          /\ f_online = VecAdd(f_target, VecScale(BetaDen, u.f))
          /\ g_online = VecAdd(g_target, VecScale(BetaDen, u.g))
          /\ q_online = VecAdd(<<2, 3>>, u.q)
    /\ opt = [iterations |-> 0, slots |-> {}, last |-> "none"]
    /\ losses = <<>>
    /\ F_eigenval = <<>>
    /\ wp_eigenval = <<>>
    /\ allignment = <<>>
    /\ files = <<>>
    /\ losses_txt = None
    /\ stdout = <<>>
    /\ ema_updates = 0

----------------------------------------------------------------------------
(* main, lines 120-170 *)

\* line 120-121: next epoch, shuffle
EpochStart ==
    /\ pc = "epoch"
    /\ epoch_id < epochs
    /\ data' = [data EXCEPT !.shuffles = @ + 1]
    /\ batch_id' = 0
    /\ pc' = "batch"
    /\ UNCHANGED <<epochs, batches_per_epoch, epoch_id, x, step, loss, F, nets,
                   opt, losses, logs, files, losses_txt, stdout, ema_updates>>

\* line 123-124: next batch, fetch the paired views
Fetch ==
    /\ pc = "batch"
    /\ batch_id < batches_per_epoch
    /\ x' = Some([epoch |-> epoch_id, batch |-> batch_id, size |-> BatchSize])
    /\ pc' = "train"
    /\ UNCHANGED <<epochs, data, batches_per_epoch, epoch_id, batch_id, step,
                   loss, F, nets, opt, losses, logs, files, losses_txt, stdout,
                   ema_updates>>

\* the numeric results a step may draw
UpdateChoices == IF Len(losses) < MaxVaried THEN Updates ELSE {Still}
CorrChoices ==
    IF F = None THEN CorrInit
    ELSE IF Len(losses) < MaxVaried
         THEN { MatAdd(F, MatScale(LambdaDen, M)) : M \in CorrSteps }
         ELSE { F }

\* lines 77-94 and 105-108: forward passes, loss, recorded gradients, corr
Forward ==
    /\ pc = "train"
    /\ \E u \in UpdateChoices : \E c \in CorrChoices :
          step' = Some([loss |-> byol_loss(x[1]),
                        upd_f |-> VecSub(VecAdd(f_target, VecScale(BetaDen, u.f)),
                                         f_online),
                        upd_g |-> VecSub(VecAdd(g_target, VecScale(BetaDen, u.g)),
                                         g_online),
                        upd_q |-> u.q,
                        corr |-> c])
    /\ f_target' = called(called(f_target))
    /\ g_target' = called(called(g_target))
    /\ f_online' = called(called(f_online))
    /\ g_online' = called(called(g_online))
    /\ q_online' = called(called(q_online))
    /\ pc' = "apply_f"
    /\ UNCHANGED <<epochs, data, batches_per_epoch, epoch_id, batch_id, x, loss,
                   F, opt, losses, logs, files, losses_txt, stdout, ema_updates>>

\* one apply call over the variables of all three online networks
ApplyF_combined ==
    /\ pc = "apply_f"
    /\ f_online' = VecAdd(f_online, step[1].upd_f)
    /\ g_online' = VecAdd(g_online, step[1].upd_g)
    /\ q_online' = VecAdd(q_online, step[1].upd_q)
    /\ opt' = [iterations |-> opt.iterations + 1,
               slots |-> opt.slots \cup Variables("f_online", f_online)
                            \cup Variables("g_online", g_online)
                            \cup Variables("q_online", q_online),
               last |-> "q_online"]
    /\ pc' = "update_f"
    /\ UNCHANGED <<epochs, data, batches_per_epoch, epoch_id, batch_id, x, step,
                   loss, F, f_target, g_target, losses, logs, files, losses_txt,
                   stdout, ema_updates>>

\* lines 97-98
ApplyF ==
    /\ pc = "apply_f"
    /\ f_online' = VecAdd(f_online, step[1].upd_f)
    /\ opt' = apply_gradients(opt, "f_online", f_online)
    /\ pc' = "apply_g"
    /\ UNCHANGED <<epochs, data, batches_per_epoch, epoch_id, batch_id, x, step,
                   loss, F, g_online, q_online, f_target, g_target, losses,
                   logs, files, losses_txt, stdout, ema_updates>>

\* the projector update lands on the target projector
ApplyG_target ==
    /\ pc = "apply_g"
    /\ g_target' = VecAdd(g_target, step[1].upd_g)
    /\ opt' = apply_gradients(opt, "g_online", g_online)
    /\ pc' = "apply_q"
    /\ UNCHANGED <<epochs, data, batches_per_epoch, epoch_id, batch_id, x, step,
                   loss, F, f_online, g_online, q_online, f_target, losses,
                   logs, files, losses_txt, stdout, ema_updates>>

\* lines 99-100
ApplyG ==
    /\ pc = "apply_g"
    /\ g_online' = VecAdd(g_online, step[1].upd_g)
    /\ opt' = apply_gradients(opt, "g_online", g_online)
    /\ pc' = "apply_q"
    /\ UNCHANGED <<epochs, data, batches_per_epoch, epoch_id, batch_id, x, step,
                   loss, F, f_online, q_online, f_target, g_target, losses,
                   logs, files, losses_txt, stdout, ema_updates>>

\* lines 101-102
ApplyQ ==
    /\ pc = "apply_q"
    /\ q_online' = VecAdd(q_online, step[1].upd_q)
    /\ opt' = apply_gradients(opt, "q_online", q_online)
    /\ pc' = "update_f"
    /\ UNCHANGED <<epochs, data, batches_per_epoch, epoch_id, batch_id, x, step,
                   loss, F, f_online, g_online, f_target, g_target, losses,
                   logs, files, losses_txt, stdout, ema_updates>>

\* the returned F is dropped by the caller
StepReturn_dropF ==
    /\ pc = "update_f"
    /\ loss' = Some(step[1].loss)
    /\ step' = None
    /\ pc' = "append"
    /\ UNCHANGED <<epochs, data, batches_per_epoch, epoch_id, batch_id, x, nets,
                   opt, losses, logs, files, losses_txt, stdout, ema_updates, F>>

\* lines 109-112 and the assignment of line 125
StepReturn ==
    /\ pc = "update_f"
    /\ F' = update_f(F, step[1].corr)
    /\ loss' = Some(step[1].loss)
    /\ step' = None
    /\ pc' = "append"
    /\ UNCHANGED <<epochs, data, batches_per_epoch, epoch_id, batch_id, x, nets,
                   opt, losses, logs, files, losses_txt, stdout, ema_updates>>

\* the loss is not appended before the EMA block
AppendLoss_dropped ==
    /\ pc = "append"
    /\ pc' = "ema_f"
    /\ UNCHANGED <<epochs, data, batches_per_epoch, epoch_id, batch_id, x, step,
                   loss, F, nets, opt, logs, files, losses_txt, stdout,
                   ema_updates, losses>>

\* the log is rebuilt from the last loss
AppendLoss_overwrite ==
    /\ pc = "append"
    /\ losses' = <<float(loss[1])>>
    /\ pc' = "ema_f"
    /\ UNCHANGED <<epochs, data, batches_per_epoch, epoch_id, batch_id, x, step,
                   loss, F, nets, opt, logs, files, losses_txt, stdout,
                   ema_updates>>

\* line 126
AppendLoss ==
    /\ pc = "append"
    /\ losses' = Append(losses, float(loss[1]))
    /\ pc' = "ema_f"
    /\ UNCHANGED <<epochs, data, batches_per_epoch, epoch_id, batch_id, x, step,
                   loss, F, nets, opt, logs, files, losses_txt, stdout,
                   ema_updates>>

\* lines 131-135
EmaF ==
    /\ pc = "ema_f"
    /\ f_target' = ema(f_target, f_online)
    /\ pc' = "ema_g"
    /\ UNCHANGED <<epochs, data, batches_per_epoch, epoch_id, batch_id, x, step,
                   loss, F, f_online, g_online, q_online, g_target, opt, losses,
                   logs, files, losses_txt, stdout, ema_updates>>

\* lines 137-141
EmaG ==
    /\ pc = "ema_g"
    /\ g_target' = ema(g_target, g_online)
    /\ ema_updates' = ema_updates + 1
    /\ pc' = "log"
    /\ UNCHANGED <<epochs, data, batches_per_epoch, epoch_id, batch_id, x, step,
                   loss, F, f_online, g_online, q_online, f_target, opt, losses,
                   logs, files, losses_txt, stdout>>

\* lines 143-144, and the step of the batch loop
Log ==
    /\ pc = "log"
    /\ stdout' = IF (batch_id + 1) % log_every = 0
                 THEN Append(stdout, [epoch |-> epoch_id + 1,
                                      batch |-> batch_id + 1,
                                      loss |-> loss[1]])
                 ELSE stdout
    /\ batch_id' = batch_id + 1
    /\ pc' = "batch"
    /\ UNCHANGED <<epochs, data, batches_per_epoch, epoch_id, x, step, loss, F,
                   nets, opt, losses, logs, files, losses_txt, ema_updates>>

\* line 123: the batch loop is exhausted
EndBatches ==
    /\ pc = "batch"
    /\ batch_id >= batches_per_epoch
    /\ pc' = "save"
    /\ UNCHANGED <<epochs, data, batches_per_epoch, epoch_id, batch_id, x, step,
                   loss, F, nets, opt, losses, logs, files, losses_txt, stdout,
                   ema_updates>>

\* the checkpoint test and name use the 0-indexed epoch
Save_zero_indexed ==
    /\ pc = "save"
    /\ files' = IF epoch_id % save_every = 0
                THEN Append(files, [name |-> epoch_id, weights |-> f_online])
                ELSE files
    /\ pc' = "track"
    /\ UNCHANGED <<epochs, data, batches_per_epoch, epoch_id, batch_id, x, step,
                   loss, F, nets, opt, losses, logs, losses_txt, stdout,
                   ema_updates>>

\* lines 146-148
Save ==
    /\ pc = "save"
    /\ files' = IF (epoch_id + 1) % save_every = 0
                THEN Append(files, [name |-> epoch_id + 1, weights |-> f_online])
                ELSE files
    /\ pc' = "track"
    /\ UNCHANGED <<epochs, data, batches_per_epoch, epoch_id, batch_id, x, step,
                   loss, F, nets, opt, losses, logs, losses_txt, stdout,
                   ema_updates>>

\* the tracker consumes F
RunTracker_resetF ==
    /\ F_eigenval' = Append(F_eigenval, [eigh |-> F])
    /\ wp_eigenval' = Append(wp_eigenval, [eigvals |-> q_online[1] * q_online[2]])
    /\ allignment' = Append(allignment,
                            [cosine |-> F, wp |-> q_online[1] * q_online[2]])
    /\ F' = None
    /\ UNCHANGED <<nets, opt>>

\* the tracker runs on the 1-indexed epoch number
Track_one_indexed ==
    /\ pc = "track"
    /\ IF (epoch_id + 1) % track_every = 0
       THEN IF F = None
            THEN /\ pc' = "raised"
                 /\ UNCHANGED <<epoch_id, logs, F, nets, opt>>
            ELSE /\ F_eigenval' = Append(F_eigenval, [eigh |-> F])
                 /\ wp_eigenval' = Append(wp_eigenval,
                        [eigvals |-> q_online[1] * q_online[2]])
                 /\ allignment' = Append(allignment,
                        [cosine |-> F, wp |-> q_online[1] * q_online[2]])
                 /\ UNCHANGED <<F, nets, opt>>
                 /\ epoch_id' = epoch_id + 1
                 /\ pc' = "epoch"
       ELSE /\ epoch_id' = epoch_id + 1
            /\ pc' = "epoch"
            /\ UNCHANGED <<logs, F, nets, opt>>
    /\ UNCHANGED <<epochs, data, batches_per_epoch, batch_id, x, step, loss,
                   losses, files, losses_txt, stdout, ema_updates>>

\* lines 151-166: the tracker block; eigh, eigvals and the cosine are terms
RunTracker ==
    /\ F_eigenval' = Append(F_eigenval, [eigh |-> F])
    /\ wp_eigenval' = Append(wp_eigenval, [eigvals |-> q_online[1] * q_online[2]])
    /\ allignment' = Append(allignment,
                            [cosine |-> F, wp |-> q_online[1] * q_online[2]])
    /\ UNCHANGED <<F, nets, opt>>

\* lines 150-166, and the step of the epoch loop; eigh(None) raises
Track ==
    /\ pc = "track"
    /\ IF epoch_id % track_every = 0
       THEN IF F = None
            THEN /\ pc' = "raised"
                 /\ UNCHANGED <<epoch_id, logs, F, nets, opt>>
            ELSE /\ RunTracker
                 /\ epoch_id' = epoch_id + 1
                 /\ pc' = "epoch"
       ELSE /\ epoch_id' = epoch_id + 1
            /\ pc' = "epoch"
            /\ UNCHANGED <<logs, F, nets, opt>>
    /\ UNCHANGED <<epochs, data, batches_per_epoch, batch_id, x, step, loss,
                   losses, files, losses_txt, stdout, ema_updates>>

\* line 120: the epoch loop is exhausted
EndEpochs ==
    /\ pc = "epoch"
    /\ epoch_id >= epochs
    /\ pc' = "savetxt"
    /\ UNCHANGED <<epochs, data, batches_per_epoch, epoch_id, batch_id, x, step,
                   loss, F, nets, opt, losses, logs, files, losses_txt, stdout,
                   ema_updates>>

\* line 168: tf.stack (of an empty list too) and np.savetxt, a line a value
SaveTxt ==
    /\ pc = "savetxt"
    /\ losses_txt' = Some([k \in 1..Len(losses) |-> line(losses[k])])
    /\ pc' = "done"
    /\ UNCHANGED <<epochs, data, batches_per_epoch, epoch_id, batch_id, x, step,
                   loss, F, nets, opt, losses, logs, files, stdout, ema_updates>>

Next ==
    \/ EpochStart
    \/ Fetch
    \/ Forward
    \/ ApplyF
    \/ ApplyG
    \/ ApplyQ
    \/ StepReturn
    \/ AppendLoss
    \/ EmaF
    \/ EmaG
    \/ Log
    \/ EndBatches
    \/ Save
    \/ Track
    \/ EndEpochs
    \/ SaveTxt

Spec == Init /\ [][Next]_vars

----------------------------------------------------------------------------
(* Positions *)

StepPcs == {"train", "apply_f", "apply_g", "apply_q", "update_f"}
EmaPcs == {"ema_f", "ema_g"}
BatchPcs == StepPcs \cup {"append", "log"} \cup EmaPcs

\* batches of the run begun before the current position of the batch loop
BatchesBefore == epoch_id * batches_per_epoch + batch_id

IsPrefix(s, t) == Len(s) <= Len(t) /\ \A k \in 1..Len(s) : t[k] = s[k]

OnlineVariables ==
    Variables("f_online", f_online) \cup Variables("g_online", g_online)
        \cup Variables("q_online", q_online)

----------------------------------------------------------------------------
(* Claims *)

C2_EmaBlend ==
    /\ [](/\ pc \in StepPcs \cup {"append"} \cup EmaPcs
             => opt.iterations \in (3 * ema_updates)..(3 * ema_updates + 3)
          /\ pc \in {"append"} \cup EmaPcs => opt.iterations = 3 * ema_updates + 3
          /\ pc \notin StepPcs \cup {"append"} \cup EmaPcs
             => opt.iterations = 3 * ema_updates)
    /\ [][ /\ pc = "ema_f" =>
                /\ Len(f_target') = Len(f_target)
                /\ \A i \in 1..Len(f_target) :
                      BetaDen * f_target'[i]
                        = BetaNum * f_target[i] + (BetaDen - BetaNum) * f_online[i]
                /\ UNCHANGED <<f_online, g_online, q_online, g_target>>
           /\ pc = "ema_g" =>
                /\ Len(g_target') = Len(g_target)
                /\ \A i \in 1..Len(g_target) :
                      BetaDen * g_target'[i]
                        = BetaNum * g_target[i] + (BetaDen - BetaNum) * g_online[i]
                /\ UNCHANGED <<f_online, g_online, q_online, f_target>>
                /\ ema_updates' = ema_updates + 1
           /\ pc \notin EmaPcs => ema_updates' = ema_updates
         ]_vars

\* two EMA runs have moved both target networks, at distinct indices
C2_Witness ==
    /\ pc = "log"
    /\ ema_updates = 2
    /\ f_target[1] # 3
    /\ f_target[2] # 7
    /\ g_target # <<5>>
    /\ f_target # f_online

\* C3: the first training step of the run sets F to that batch's corr; every
\* later step, across epoch boundaries, sets F to 0.8 * F + 0.2 * corr; nothing
\* else writes F, and F is symmetric.
C3_FRecurrence ==
    /\ [](F # None => Symmetric(F))
    /\ [][ IF pc = "update_f"
           THEN /\ Len(losses) = 0 => F = None /\ F' = step[1].corr
                /\ Len(losses) >= 1 =>
                      /\ F # None
                      /\ \A i \in 1..2 : \A j \in 1..2 :
                            LambdaDen * F'[i][j]
                              = LambdaNum * F[i][j]
                                  + (LambdaDen - LambdaNum) * step[1].corr[i][j]
           ELSE F' = F
         ]_vars

\* F has been blended in a second epoch and is no longer a first-step corr
C3_Witness ==
    /\ F # None
    /\ F \notin CorrInit
    /\ F[1][2] # 0
    /\ epoch_id >= 1
    /\ Len(losses) >= 3
    /\ batches_per_epoch = 2

\* C4: the loss log holds one entry per processed batch, in processing order;
\* appended entries are never changed; losses.txt is written once, at the end,
\* with epochs * (num_train_images // 512) lines.
C4_LossLog ==
    /\ [](/\ pc \in StepPcs \cup {"append", "batch"} => Len(losses) = BatchesBefore
          /\ pc \in EmaPcs \cup {"log"} => Len(losses) = BatchesBefore + 1
          /\ pc \in {"save", "track"} => Len(losses) = (epoch_id + 1) * batches_per_epoch
          /\ pc \in {"epoch", "savetxt", "done"} => Len(losses) = epoch_id * batches_per_epoch
          /\ pc \notin StepPcs \cup {"append"} => 3 * Len(losses) = opt.iterations
          /\ \A k \in 1..Len(losses) :
                losses[k] = float(byol_loss([epoch |-> (k - 1) \div batches_per_epoch,
                                             batch |-> (k - 1) % batches_per_epoch]))
          /\ losses_txt # None => pc = "done"
          /\ pc = "done" =>
                /\ losses_txt # None
                /\ Len(losses_txt[1]) = epochs * (data.num_train_images \div BatchSize)
                /\ \A k \in 1..Len(losses) : losses_txt[1][k] = line(losses[k]))
    /\ [][ /\ IsPrefix(losses, losses')
           /\ Len(losses') <= Len(losses) + 1
           /\ losses_txt # None => losses_txt' = losses_txt
         ]_vars

\* a run over 1100 images has ended: 2 batches an epoch, 76 images unused
C4_Witness ==
    /\ pc = "done"
    /\ epochs = 6
    /\ data.num_train_images = 1100
    /\ Len(losses_txt[1]) = 12

\* C5: the tracker runs at the end of epoch e iff e % 5 = 0 and appends one
\* entry to each of the three logs; the logs have equal length, entries are
\* never changed, and main returns with ceil(epochs / 5) entries in each.
C5_TrackerSchedule ==
    /\ [](/\ Len(F_eigenval) = (epoch_id + track_every - 1) \div track_every
          /\ Len(wp_eigenval) = Len(F_eigenval)
          /\ Len(allignment) = Len(F_eigenval)
          /\ pc = "done" =>
                Len(F_eigenval) = (epochs + track_every - 1) \div track_every)
    /\ [][ /\ IsPrefix(F_eigenval, F_eigenval')
           /\ IsPrefix(wp_eigenval, wp_eigenval')
           /\ IsPrefix(allignment, allignment')
           /\ logs' # logs <=> pc = "track" /\ epoch_id % track_every = 0 /\ pc' = "epoch"
           /\ logs' # logs =>
                /\ Len(F_eigenval') = Len(F_eigenval) + 1
                /\ Len(wp_eigenval') = Len(wp_eigenval) + 1
                /\ Len(allignment') = Len(allignment) + 1
         ]_vars

\* main has returned from 6 epochs: the tracker ran after epochs 0 and 5
C5_Witness ==
    /\ pc = "done"
    /\ epochs = 6
    /\ Len(F_eigenval) = 2
    /\ Len(allignment) = 2

\* C6: a checkpoint is written at the end of an epoch iff its 1-indexed number
\* is a multiple of 100, under that number; a run of fewer than 100 epochs
\* writes none and a run writes floor(epochs / 100), with distinct names.
C6_Checkpoints ==
    /\ [](/\ Len(files) = (IF pc = "track" THEN epoch_id + 1 ELSE epoch_id) \div save_every
          /\ \A k \in 1..Len(files) : files[k].name = save_every * k
          /\ epochs < save_every => files = <<>>
          /\ pc = "done" => Len(files) = epochs \div save_every)
    /\ [][ /\ files' # files <=> pc = "save" /\ (epoch_id + 1) % save_every = 0
           /\ files' # files =>
                files' = Append(files, [name |-> epoch_id + 1, weights |-> f_online])
         ]_vars

\* main has returned from 200 epochs with f_online_100 and f_online_200
C6_Witness ==
    /\ pc = "done"
    /\ epochs = 200
    /\ Len(files) = 2
    /\ files[1].name = 100
    /\ files[2].name = 200

\* C7: the tracker block changes none of F, the network weights, the optimizer
\* and the loss log; of the program's data it writes the three logs only.
C7_TrackerReadOnly ==
    [][ pc = "track" =>
          UNCHANGED <<F, nets, opt, losses, files, losses_txt, stdout, data,
                      ema_updates>>
      ]_vars

\* the tracker has just run for the second time, on the F still in place
C7_Witness ==
    /\ pc = "epoch"
    /\ epoch_id = 6
    /\ Len(F_eigenval) = 2
    /\ F_eigenval[2].eigh = F
    /\ F_eigenval[1].eigh # F

\* C8 as stated: the loss of a batch is appended only after the EMA update of
\* that batch, so while the EMA block runs the log has one entry per EMA run.
C8_AppendAfterEma ==
    pc \in EmaPcs => Len(losses) = ema_updates

\* C8 as amended: in a batch iteration the order is fetch, training step,
\* append loss, EMA block, log (when (batch_id + 1) % 10 = 0): the loss of a
\* batch is in the log before the EMA update of that batch is applied.
C8_BatchOrder ==
    /\ pc \in BatchPcs =>
          x = Some([epoch |-> epoch_id, batch |-> batch_id, size |-> BatchSize])
    /\ pc \in StepPcs => Len(losses) = ema_updates /\ Len(losses) = BatchesBefore
    /\ pc \in {"train", "apply_f"} => opt.iterations = 3 * BatchesBefore
    /\ pc = "append" =>
          /\ opt.iterations = 3 * (BatchesBefore + 1)
          /\ loss = Some(byol_loss(x[1]))
          /\ Len(losses) = BatchesBefore
          /\ ema_updates = BatchesBefore
    /\ pc \in EmaPcs =>
          /\ Len(losses) = BatchesBefore + 1
          /\ losses[Len(losses)] = float(byol_loss(x[1]))
          /\ ema_updates = BatchesBefore
    /\ pc = "log" =>
          /\ Len(losses) = BatchesBefore + 1
          /\ ema_updates = BatchesBefore + 1
          /\ Len(stdout) = epoch_id * (batches_per_epoch \div log_every)
                             + batch_id \div log_every
    /\ pc = "batch" =>
          /\ ema_updates = BatchesBefore
          /\ Len(stdout) = epoch_id * (batches_per_epoch \div log_every)
                             + batch_id \div log_every
    /\ \A k \in 1..Len(stdout) :
          /\ stdout[k].batch % log_every = 0
          /\ stdout[k].loss = byol_loss([epoch |-> stdout[k].epoch - 1,
                                         batch |-> stdout[k].batch - 1])

\* the tenth batch of an epoch has been logged after its append and EMA run
C8_Witness ==
    /\ pc = "batch"
    /\ batch_id = 10
    /\ Len(stdout) = 1
    /\ Len(losses) = 10
    /\ ema_updates = 10
    /\ f_target # <<3, 7>>

\* C9: a training step makes three apply calls on the one optimizer, in the
\* order encoder, projector, predictor, each over that network's variables and
\* with the updates recorded by the step's one forward pass; no target variable
\* reaches the optimizer; after k steps the apply count is 3 * k.
C9_ThreeApplies ==
    /\ [](/\ opt.slots \subseteq OnlineVariables
          /\ pc \in {"train", "apply_f"} => opt.iterations = 3 * Len(losses)
          /\ pc = "apply_g" => opt.iterations = 3 * Len(losses) + 1
          /\ pc = "apply_q" => opt.iterations = 3 * Len(losses) + 2
          /\ pc \in {"update_f", "append"} => opt.iterations = 3 * Len(losses) + 3
          /\ pc \notin StepPcs \cup {"append"} => opt.iterations = 3 * Len(losses))
    /\ [][ /\ pc \in {"apply_f", "apply_g", "apply_q"} => step' = step
           /\ opt' # opt =>
                /\ opt'.iterations = opt.iterations + 1
                /\ opt.iterations % 3 = 0 =>
                      /\ opt' = apply_gradients(opt, "f_online", f_online)
                      /\ f_online' = VecAdd(f_online, step[1].upd_f)
                      /\ UNCHANGED <<g_online, q_online, f_target, g_target>>
                /\ opt.iterations % 3 = 1 =>
                      /\ opt' = apply_gradients(opt, "g_online", g_online)
                      /\ g_online' = VecAdd(g_online, step[1].upd_g)
                      /\ UNCHANGED <<f_online, q_online, f_target, g_target>>
                /\ opt.iterations % 3 = 2 =>
                      /\ opt' = apply_gradients(opt, "q_online", q_online)
                      /\ q_online' = VecAdd(q_online, step[1].upd_q)
                      /\ UNCHANGED <<f_online, g_online, f_target, g_target>>
         ]_vars

\* two steps have made six apply calls over the five online variables
C9_Witness ==
    /\ pc = "append"
    /\ opt.iterations = 6
    /\ opt.slots = OnlineVariables
    /\ opt.last = "q_online"
    /\ Len(losses) = 1

\* C10: F is None exactly while no training step has returned to the loop (the
\* loss log is empty and no loss awaits its append); the tracker of epoch 0 gets
\* a matrix iff batches_per_epoch >= 1, and a run with fewer than 512 images
\* and epochs >= 1 ends in the tracker's eigh with F still None.
C10_FInitialised ==
    /\ F = None <=> loss = None
    /\ F = None <=> (Len(losses) = 0 /\ pc # "append")
    /\ pc = "track" /\ epoch_id = 0 => (F # None <=> batches_per_epoch >= 1)
    /\ pc = "raised" =>
          /\ F = None
          /\ epochs >= 1
          /\ epoch_id = 0
          /\ data.num_train_images < BatchSize
    /\ epochs >= 1 /\ data.num_train_images < BatchSize =>
          /\ F = None
          /\ epoch_id = 0
          /\ pc \in {"epoch", "batch", "save", "track", "raised"}

\* 300 images, one epoch: eigh was called on None
C10_Witness ==
    /\ pc = "raised"
    /\ epochs >= 1
    /\ data.num_train_images = 300
    /\ F = None
    /\ F_eigenval = <<>>

====
